---- MODULE Spec2Model ----
(***************************************************************************)
(* mirrorfs: a FUSE pass-through file system (src/mirrorfs.c).             *)
(*                                                                         *)
(* The model has three layers.                                             *)
(*  - sys_*      the operating-system calls the handlers forward to, with  *)
(*               their POSIX results over a small tree: a root directory   *)
(*               holding regular files and symbolic links;                 *)
(*  - mirror_*   the handlers of mirrorfs.c, one operator per handler,     *)
(*               each a pure function of its arguments, the calling        *)
(*               thread's errno and the state, computed as the C code      *)
(*               computes it;                                              *)
(*  - the actions: one request of the FUSE library per action, which runs  *)
(*               the whole handler on a worker thread and keeps the        *)
(*               session record (struct fuse_file_info) the way libfuse    *)
(*               does: a session exists from an open/create/opendir that   *)
(*               returned 0 until its release/releasedir.                  *)
(***************************************************************************)
EXTENDS Integers, Sequences, FiniteSets, TLC

(* ------------------------------ bounds -------------------------------- *)
MaxFd   == 4    \* descriptors 3..MaxFd are available to open()/creat()
MaxIno  == 3    \* inode 1 is the root directory, 2..MaxIno hold the nodes
MaxLen  == 2    \* largest file length
MaxSess == 1    \* open sessions the framework holds at a time
MaxCap  == 2    \* most entries one readdir reply buffer holds (at least 1)
MaxBuf  == 3    \* largest readlink buffer
MaxDir  == 1    \* DIR streams the process may hold open at a time
MaxThread == 1  \* worker threads of the FUSE loop serving requests

Names   == {"a", "bb"}        \* names that may exist under the root
Root    == "/"
Paths   == Names \cup {Root}
NameOrder == <<"a", "bb">>    \* order in which the directory stores them
Bytes   == {1, 2}
WriteBufs == {<<1>>, <<2, 1>>}
NUL     == "NUL"              \* the terminating byte of a C string
Junk    == "?"                \* a byte left over in an uninitialised buffer

(* ------------------- <errno.h>, <fcntl.h> constants ------------------- *)
ENOENT  == 2
EIO     == 5
EBADF   == 9
EEXIST  == 17
ENOTDIR == 20
EISDIR  == 21
EINVAL  == 22
EMFILE  == 24
EFBIG   == 27
ENOSPC  == 28
ELOOP   == 40
O_RDONLY == 0
O_WRONLY == 1
O_RDWR   == 2
O_ACCMODE == 3
OpenFlags == {O_RDONLY, O_WRONLY, O_RDWR}

RootIno == 1
Threads == 1..MaxThread
Dirs  == 1..MaxDir
Fds   == 3..MaxFd
Inos  == 1..MaxIno
Sids  == 1..MaxSess

VARIABLES
    names,    \* the root directory: name -> inode number, 0 when absent
    inodes,   \* inode number -> [kind, data, target, nlink]
    fdtab,    \* the process's descriptor table: fd -> [open, ino, acc, pos]
    dirtab,   \* the open DIR streams: stream -> [open, loc]
    errno,    \* thread -> that thread's errno
    sess,     \* the framework's session records (fuse_file_info and its use)
    lastw     \* the last successful write: [ino, off, data]

vars == <<names, inodes, fdtab, dirtab, errno, sess, lastw>>

(* ----------------------------- the tree ------------------------------- *)
FreeInode == [kind |-> "free", data |-> <<>>, target |-> "", nlink |-> 0]
ClosedFd  == [open |-> FALSE, ino |-> 0, acc |-> 0, pos |-> 0]
NoAttr    == [ino |-> 0, kind |-> "none", size |-> 0, nlink |-> 0]

Min(a, b) == IF a < b THEN a ELSE b
Max(a, b) == IF a > b THEN a ELSE b

\* The text of a path, as the bytes of the C string without its terminator.
Text(p) == CASE p = "a"  -> <<"a">>
             [] p = "bb" -> <<"b", "b">>
             [] OTHER    -> <<"/">>

\* The inode a name is bound to, without following a symbolic link.
Lookup(nm, p) == IF p = Root THEN RootIno ELSE nm[p]

\* Most symbolic links followed in one resolution: a longer chain over
\* Names is a loop.
SymloopMax == Cardinality(Names)

\* Path resolution that follows symbolic links (stat, open, access, opendir).
\* [err, ino, name]: name is the final name reached, where O_CREAT creates.
RECURSIVE Walk(_, _, _, _)
Walk(nm, ind, p, depth) ==
    LET i == Lookup(nm, p) IN
    IF i = 0 THEN [err |-> ENOENT, ino |-> 0, name |-> p]
    ELSE IF ind[i].kind = "lnk"
         THEN IF depth = 0 THEN [err |-> ELOOP, ino |-> 0, name |-> p]
              ELSE Walk(nm, ind, ind[i].target, depth - 1)
         ELSE [err |-> 0, ino |-> i, name |-> p]

Resolve(p) == Walk(names, inodes, p, SymloopMax)

\* struct stat of an inode: type, size, link count, identity.
AttrOf(ind, i) ==
    [ino |-> i, kind |-> ind[i].kind, nlink |-> ind[i].nlink,
     size |-> IF ind[i].kind = "reg" THEN Len(ind[i].data)
              ELSE IF ind[i].kind = "lnk" THEN Len(Text(ind[i].target))
              ELSE 0]

FreeInos(ind) == {i \in Inos : ind[i].kind = "free"}
LowestIno(ind) == CHOOSE i \in FreeInos(ind) : \A j \in FreeInos(ind) : i <= j
FreeFds(ft) == {f \in Fds : ~ft[f].open}
LowestFd(ft) == CHOOSE f \in FreeFds(ft) : \A g \in FreeFds(ft) : f <= g

\* An inode with no name and no descriptor left is given back.
Reap(ind, ft) ==
    [i \in Inos |->
        IF i # RootIno /\ ind[i].kind # "free" /\ ind[i].nlink = 0
           /\ ~\E f \in Fds : ft[f].open /\ ft[f].ino = i
        THEN FreeInode ELSE ind[i]]

\* The entries of the root directory in stream order.
RECURSIVE Bound(_, _)
Bound(nm, k) ==
    IF k > Len(NameOrder) THEN <<>>
    ELSE (IF nm[NameOrder[k]] # 0 THEN <<NameOrder[k]>> ELSE <<>>)
         \o Bound(nm, k + 1)
DirEntries(nm) == <<".", "..">> \o Bound(nm, 1)
MaxEntries == 2 + Cardinality(Names)

\* d_off of the k-th entry: the stream position after it (seekdir cookie).
Cookie(k) == IF k = 0 THEN 0 ELSE 3 * k + 1

(* ------------------------- operating system --------------------------- *)
(* Every call returns [ret, err, ...]: ret as the C call returns it, err   *)
(* the value the call stores in errno when it fails (0: errno untouched),  *)
(* and the parts of the state the call changes.  The framework's requests  *)
(* below are issued while a descriptor, a stream and an inode are left and *)
(* within MaxLen; the calls themselves answer every input.                 *)

\* access(2), line 34. Permission bits are not modelled: F_OK.
sys_access(p, mode) ==
    LET r == Resolve(p) IN
    IF r.err # 0 THEN [ret |-> -1, err |-> r.err] ELSE [ret |-> 0, err |-> 0]

\* stat(2), line 45: follows symbolic links.
sys_stat(p) ==
    LET r == Resolve(p) IN
    IF r.err # 0 THEN [ret |-> -1, err |-> r.err, st |-> NoAttr]
    ELSE [ret |-> 0, err |-> 0, st |-> AttrOf(inodes, r.ino)]

\* fstat(2), line 57.
sys_fstat(fd) ==
    IF fd \notin Fds \/ ~fdtab[fd].open
    THEN [ret |-> -1, err |-> EBADF, st |-> NoAttr]
    ELSE [ret |-> 0, err |-> 0, st |-> AttrOf(inodes, fdtab[fd].ino)]

\* readlink(2), line 67: copies at most bufsize bytes of the target, appends
\* no terminator, and returns the number of bytes copied.
sys_readlink(p, buf, bufsize) ==
    LET i == Lookup(names, p) IN
    IF i = 0 THEN [ret |-> -1, err |-> ENOENT, buf |-> buf]
    ELSE IF inodes[i].kind # "lnk" \/ bufsize <= 0
    THEN [ret |-> -1, err |-> EINVAL, buf |-> buf]
    ELSE LET txt == Text(inodes[i].target)
             n   == Min(Len(txt), bufsize)
         IN [ret |-> n, err |-> 0,
             buf |-> SubSeq(txt, 1, n) \o SubSeq(buf, n + 1, Len(buf))]

\* unlink(2), line 100.
sys_unlink(p) ==
    LET i == Lookup(names, p) IN
    IF i = 0
    THEN [ret |-> -1, err |-> ENOENT, names |-> names, inodes |-> inodes]
    ELSE IF inodes[i].kind = "dir"
    THEN [ret |-> -1, err |-> EISDIR, names |-> names, inodes |-> inodes]
    ELSE [ret |-> 0, err |-> 0,
          names  |-> [names EXCEPT ![p] = 0],
          inodes |-> Reap([inodes EXCEPT ![i].nlink = @ - 1], fdtab)]

\* symlink(2), line 135.
sys_symlink(target, linkpath) ==
    IF Lookup(names, linkpath) # 0
    THEN [ret |-> -1, err |-> EEXIST, names |-> names, inodes |-> inodes]
    ELSE IF FreeInos(inodes) = {}
    THEN [ret |-> -1, err |-> ENOSPC, names |-> names, inodes |-> inodes]
    ELSE LET i == LowestIno(inodes) IN
         [ret |-> 0, err |-> 0,
          names  |-> [names EXCEPT ![linkpath] = i],
          inodes |-> [inodes EXCEPT ![i] =
                        [kind |-> "lnk", data |-> <<>>, target |-> target,
                         nlink |-> 1]]]

\* rename(2), line 146: the new name is replaced atomically.
sys_rename(oldpath, newpath) ==
    LET i == Lookup(names, oldpath)
        j == Lookup(names, newpath)
    IN
    IF i = 0
    THEN [ret |-> -1, err |-> ENOENT, names |-> names, inodes |-> inodes]
    ELSE IF i = j
    THEN [ret |-> 0, err |-> 0, names |-> names, inodes |-> inodes]
    ELSE [ret |-> 0, err |-> 0,
          names  |-> [names EXCEPT ![oldpath] = 0, ![newpath] = i],
          inodes |-> IF j = 0 THEN inodes
                     ELSE Reap([inodes EXCEPT ![j].nlink = @ - 1], fdtab)]

\* open(2) without O_CREAT, line 247: the lowest free descriptor, or -1.
sys_open(p, flags) ==
    LET r   == Resolve(p)
        acc == flags % (O_ACCMODE + 1)
    IN
    IF r.err # 0 THEN [ret |-> -1, err |-> r.err, fdtab |-> fdtab]
    ELSE IF inodes[r.ino].kind = "dir" /\ acc # O_RDONLY
    THEN [ret |-> -1, err |-> EISDIR, fdtab |-> fdtab]
    ELSE IF FreeFds(fdtab) = {}
    THEN [ret |-> -1, err |-> EMFILE, fdtab |-> fdtab]
    ELSE LET fd == LowestFd(fdtab) IN
         [ret |-> fd, err |-> 0,
          fdtab |-> [fdtab EXCEPT ![fd] =
                       [open |-> TRUE, ino |-> r.ino, acc |-> acc, pos |-> 0]]]

\* creat(2), line 258: open(path, O_WRONLY | O_CREAT | O_TRUNC, mode).
sys_creat(p, mode) ==
    LET r == Resolve(p)
        same == [ret |-> -1, err |-> 0, fdtab |-> fdtab, names |-> names,
                 inodes |-> inodes]
    IN
    IF r.err = ELOOP THEN [same EXCEPT !.err = ELOOP]
    ELSE IF r.err = 0 /\ inodes[r.ino].kind = "dir"
    THEN [same EXCEPT !.err = EISDIR]
    ELSE IF FreeFds(fdtab) = {} THEN [same EXCEPT !.err = EMFILE]
    ELSE IF r.err = ENOENT /\ FreeInos(inodes) = {}
    THEN [same EXCEPT !.err = ENOSPC]
    ELSE LET fd == LowestFd(fdtab)
             i  == IF r.err = ENOENT THEN LowestIno(inodes) ELSE r.ino
         IN [ret |-> fd, err |-> 0,
             names  |-> IF r.err = ENOENT THEN [names EXCEPT ![r.name] = i]
                        ELSE names,
             inodes |-> [inodes EXCEPT ![i] =
                           [kind |-> "reg", data |-> <<>>, target |-> "",
                            nlink |-> IF r.err = ENOENT THEN 1 ELSE @.nlink]],
             fdtab  |-> [fdtab EXCEPT ![fd] =
                           [open |-> TRUE, ino |-> i, acc |-> O_WRONLY,
                            pos |-> 0]]]

\* close(2), line 270.
sys_close(fd) ==
    IF fd \notin Fds \/ ~fdtab[fd].open
    THEN [ret |-> -1, err |-> EBADF, fdtab |-> fdtab, inodes |-> inodes]
    ELSE LET ft == [fdtab EXCEPT ![fd] = ClosedFd] IN
         [ret |-> 0, err |-> 0, fdtab |-> ft, inodes |-> Reap(inodes, ft)]

\* The bytes of a file from offset off, at most size of them.
FileBytes(data, size, off) ==
    IF off >= Len(data) THEN <<>>
    ELSE SubSeq(data, off + 1, Min(Len(data), off + size))

\* pread(2), line 280: reads at the given offset, the file offset of the
\* descriptor stays where it is.
sys_pread(fd, size, off) ==
    IF fd \notin Fds \/ ~fdtab[fd].open \/ fdtab[fd].acc = O_WRONLY
    THEN [ret |-> -1, err |-> EBADF, buf |-> <<>>, fdtab |-> fdtab]
    ELSE IF inodes[fdtab[fd].ino].kind = "dir"
    THEN [ret |-> -1, err |-> EISDIR, buf |-> <<>>, fdtab |-> fdtab]
    ELSE LET b == FileBytes(inodes[fdtab[fd].ino].data, size, off) IN
         [ret |-> Len(b), err |-> 0, buf |-> b, fdtab |-> fdtab]

RECURSIVE Zeros(_)
Zeros(n) == IF n <= 0 THEN <<>> ELSE <<0>> \o Zeros(n - 1)

\* A file with buf stored at offset off; a gap before off reads as zeros.
Store(data, buf, off) ==
    LET padded == data \o Zeros(off - Len(data)) IN
    SubSeq(padded, 1, off) \o buf
        \o SubSeq(data, off + Len(buf) + 1, Len(data))

\* pwrite(2), line 296.
sys_pwrite(fd, buf, offset) ==
    IF fd \notin Fds \/ ~fdtab[fd].open \/ fdtab[fd].acc = O_RDONLY
    THEN [ret |-> -1, err |-> EBADF, inodes |-> inodes]
    ELSE IF offset + Len(buf) > MaxLen
    THEN [ret |-> -1, err |-> EFBIG, inodes |-> inodes]
    ELSE [ret |-> Len(buf), err |-> 0,
          inodes |-> [inodes EXCEPT ![fdtab[fd].ino].data =
                        Store(@, buf, offset)]]

\* fsync(2) and fdatasync(2), lines 345 and 347.
sys_fsync(fd) ==
    IF fd \notin Fds \/ ~fdtab[fd].open THEN [ret |-> -1, err |-> EBADF]
    ELSE [ret |-> 0, err |-> 0]

sys_fdatasync(fd) == sys_fsync(fd)

\* A DIR* is an address: never 0, and not a descriptor number.
DirPtr(d) == 4096 * d
ClosedDir == [open |-> FALSE, loc |-> 0]
FreeDirs == {d \in Dirs : ~dirtab[d].open}

\* opendir(3), line 201: a stream positioned at the first entry, or NULL (0).
sys_opendir(p) ==
    LET r == Resolve(p) IN
    IF r.err # 0 THEN [ret |-> 0, err |-> r.err, dirtab |-> dirtab]
    ELSE IF inodes[r.ino].kind # "dir"
    THEN [ret |-> 0, err |-> ENOTDIR, dirtab |-> dirtab]
    ELSE IF FreeDirs = {} THEN [ret |-> 0, err |-> EMFILE, dirtab |-> dirtab]
    ELSE LET d == CHOOSE x \in FreeDirs : \A y \in FreeDirs : x <= y IN
         [ret |-> DirPtr(d), err |-> 0,
          dirtab |-> [dirtab EXCEPT ![d] = [open |-> TRUE, loc |-> 0]]]

\* The stream a DIR* handed out by opendir points to.
DirOf(ptr) == CHOOSE d \in Dirs : DirPtr(d) = ptr

\* closedir(3), line 213, on a stream opendir returned and nobody closed.
sys_closedir(ptr) ==
    [ret |-> 0, err |-> 0, dirtab |-> [dirtab EXCEPT ![DirOf(ptr)] = ClosedDir]]

\* seekdir(3), line 231: the position a d_off (or 0) names.
sys_seekdir(offset) == CHOOSE k \in 0..MaxEntries : Cookie(k) = offset

\* readdir(3), line 233, at position loc: the next entry with its d_off, or
\* NULL at the end of the directory (errno untouched) and when reading the
\* directory fails (errno set; io says the device fails this read).
sys_readdir(ents, loc, io) ==
    IF io THEN [null |-> TRUE, err |-> EIO, name |-> "", off |-> 0, loc |-> loc]
    ELSE IF loc >= Len(ents)
    THEN [null |-> TRUE, err |-> 0, name |-> "", off |-> 0, loc |-> loc]
    ELSE [null |-> FALSE, err |-> 0, name |-> ents[loc + 1],
          off |-> Cookie(loc + 1), loc |-> loc + 1]

(* ------------------------------ handlers ------------------------------ *)
(* A handler returns [res, err, errno, ...]: res is its return value, err  *)
(* the error of the underlying call that failed (0 when none did), errno   *)
(* the calling thread's errno when it returns.  Its first argument e0 is   *)
(* the calling thread's errno when the handler is entered; fi is the       *)
(* session record the framework passes: [fh, flags].                       *)

\* errno of a thread after a call with result r, e being its errno before:
\* set when the call failed, otherwise what an earlier call left there.
ErrnoAfter(e, r) == IF r.err # 0 THEN r.err ELSE e

mirror_access(e0, path, mode) ==
    LET r == sys_access(path, mode) e == ErrnoAfter(e0, r) IN
    [res |-> IF r.ret = -1 THEN -e ELSE 0, err |-> r.err, errno |-> e]

mirror_getattr(e0, path) ==
    LET r == sys_stat(path) e == ErrnoAfter(e0, r) IN
    [res |-> IF r.ret = -1 THEN -e ELSE 0, err |-> r.err, errno |-> e,
     st |-> r.st]

\* mirror_fgetattr as it would be with the attributes taken by path.
mirror_fgetattr_bypath(e0, path, fi) ==
    LET r == sys_stat(path) e == ErrnoAfter(e0, r) IN
    [res |-> IF r.ret = -1 THEN -e ELSE 0, err |-> r.err, errno |-> e,
     st |-> r.st]

mirror_fgetattr(e0, path, fi) ==
    LET r == sys_fstat(fi.fh) e == ErrnoAfter(e0, r) IN
    [res |-> IF r.ret = -1 THEN -e ELSE 0, err |-> r.err, errno |-> e,
     st |-> r.st]

mirror_readlink(e0, path, buf, bufsize) ==
    LET r == sys_readlink(path, buf, bufsize) e == ErrnoAfter(e0, r) IN
    [res |-> IF r.ret = -1 THEN -e ELSE 0, err |-> r.err, errno |-> e,
     buf |-> r.buf]

mirror_unlink(e0, path) ==
    LET r == sys_unlink(path) e == ErrnoAfter(e0, r) IN
    [res |-> IF r.ret = -1 THEN -e ELSE 0, err |-> r.err, errno |-> e,
     names |-> r.names, inodes |-> r.inodes]

mirror_symlink(e0, target, linkpath) ==
    LET r == sys_symlink(target, linkpath) e == ErrnoAfter(e0, r) IN
    [res |-> IF r.ret = -1 THEN -e ELSE 0, err |-> r.err, errno |-> e,
     names |-> r.names, inodes |-> r.inodes]

mirror_rename(e0, oldpath, newpath) ==
    LET r == sys_rename(oldpath, newpath) e == ErrnoAfter(e0, r) IN
    [res |-> IF r.ret = -1 THEN -e ELSE 0, err |-> r.err, errno |-> e,
     names |-> r.names, inodes |-> r.inodes]

mirror_opendir(e0, path, fi) ==
    LET r == sys_opendir(path) e == ErrnoAfter(e0, r) IN
    [res |-> IF r.ret = 0 THEN -e ELSE 0, err |-> r.err, errno |-> e,
     fh |-> IF r.ret = 0 THEN fi.fh ELSE r.ret, dirtab |-> r.dirtab]

mirror_releasedir(e0, path, fi) ==
    LET r == sys_closedir(fi.fh) e == ErrnoAfter(e0, r) IN
    [res |-> IF r.ret = -1 THEN -e ELSE 0, err |-> r.err, errno |-> e,
     dirtab |-> r.dirtab]

\* fuse_fill_dir_t: 1 when the reply buffer is full (the entry is not
\* taken), else 0 with the entry and its offset added.
filler(buf, cap, name, off) ==
    IF Len(buf) >= cap THEN [full |-> TRUE, buf |-> buf]
    ELSE [full |-> FALSE, buf |-> Append(buf, [name |-> name, off |-> off])]

\* The while loop of mirror_readdir, lines 233-237.
RECURSIVE ReaddirLoop(_, _, _, _, _)
ReaddirLoop(ents, loc, buf, cap, io) ==
    LET entry == sys_readdir(ents, loc, io) IN
    IF entry.null THEN [buf |-> buf, loc |-> entry.loc, err |-> entry.err]
    ELSE LET f == filler(buf, cap, entry.name, entry.off) IN
         IF f.full THEN [buf |-> f.buf, loc |-> entry.loc, err |-> 0]
         ELSE ReaddirLoop(ents, entry.loc, f.buf, cap, FALSE)

\* mirror_readdir as it would be without the seekdir: each call goes on
\* from where the stream stands.
mirror_readdir_noseek(e0, path, cap, offset, fi, io) ==
    LET dir == DirOf(fi.fh)
        r   == ReaddirLoop(DirEntries(names), dirtab[dir].loc, <<>>, cap, io)
    IN [res |-> 0, err |-> r.err, errno |-> ErrnoAfter(e0, r), buf |-> r.buf,
        dirtab |-> [dirtab EXCEPT ![dir].loc = r.loc]]

mirror_readdir(e0, path, cap, offset, fi, io) ==
    LET dir == DirOf(fi.fh)
        r   == ReaddirLoop(DirEntries(names), sys_seekdir(offset), <<>>, cap, io)
    IN [res |-> 0, err |-> r.err, errno |-> ErrnoAfter(e0, r), buf |-> r.buf,
        dirtab |-> [dirtab EXCEPT ![dir].loc = r.loc]]

mirror_open(e0, path, fi) ==
    LET r == sys_open(path, fi.flags) e == ErrnoAfter(e0, r) IN
    [res |-> IF r.ret # 0 THEN -e ELSE 0, err |-> r.err, errno |-> e,
     fh |-> r.ret, fdtab |-> r.fdtab]

mirror_create(e0, path, mode, fi) ==
    LET r == sys_creat(path, mode) e == ErrnoAfter(e0, r) IN
    [res |-> IF r.ret = -1 THEN -e ELSE 0, err |-> r.err, errno |-> e,
     fh |-> r.ret, fdtab |-> r.fdtab, names |-> r.names,
     inodes |-> r.inodes]

mirror_release(e0, path, fi) ==
    LET r == sys_close(fi.fh) IN
    [res |-> 0, err |-> r.err, errno |-> ErrnoAfter(e0, r),
     fdtab |-> r.fdtab, inodes |-> r.inodes]

\* mirror_read as it would be under the convention of the other handlers.
mirror_read_errno(e0, path, size, offset, fi) ==
    LET r == sys_pread(fi.fh, size, offset) e == ErrnoAfter(e0, r) IN
    [res |-> IF r.ret = -1 THEN -e ELSE r.ret, err |-> r.err, errno |-> e,
     buf |-> r.buf, fdtab |-> r.fdtab]

mirror_read(e0, path, size, offset, fi) ==
    LET r == sys_pread(fi.fh, size, offset) IN
    [res |-> IF r.ret = -1 THEN 0 ELSE r.ret, err |-> r.err,
     errno |-> ErrnoAfter(e0, r), buf |-> r.buf, fdtab |-> r.fdtab]

mirror_write(e0, path, buf, offset, fi) ==
    LET r == sys_pwrite(fi.fh, buf, offset) e == ErrnoAfter(e0, r) IN
    [res |-> IF r.ret = -1 THEN -e ELSE r.ret, err |-> r.err, errno |-> e,
     inodes |-> r.inodes]

mirror_fsync(e0, path, datasync, fi) ==
    LET r == IF datasync # 0 THEN sys_fdatasync(fi.fh) ELSE sys_fsync(fi.fh)
        e == ErrnoAfter(e0, r)
    IN [res |-> IF r.ret = -1 THEN -e ELSE 0, err |-> r.err, errno |-> e]

(* ----------------------- the framework's requests ---------------------- *)
FreeSess == [st |-> "free", fh |-> 0, flags |-> 0, path |-> "", ino |-> 0,
             got |-> <<>>, off |-> 0, done |-> FALSE, clean |-> TRUE]
NoWrite  == [ino |-> 0, off |-> 0, data |-> <<>>]

Fi(s) == [fh |-> sess[s].fh, flags |-> sess[s].flags]
FreeSids == {s \in Sids : sess[s].st = "free"}
NewSid == CHOOSE s \in FreeSids : \A x \in FreeSids : s <= x

\* The last write stays the reference for a read while the bytes of its file
\* are the ones it left.
KeepW(ind) ==
    IF lastw.ino # 0 /\ ind[lastw.ino].kind = "reg"
       /\ ind[lastw.ino].data = inodes[lastw.ino].data
    THEN lastw ELSE NoWrite

\* A listing in progress is clean while the directory keeps its entries and
\* no read of it failed.
Touch(nm, failed) ==
    [s \in Sids |->
        IF sess[s].st = "dir" /\ (failed \/ nm # names)
        THEN [sess[s] EXCEPT !.clean = FALSE] ELSE sess[s]]

Init ==
    /\ names  = [n \in Names |-> IF n = "a" THEN 2 ELSE 0]
    /\ inodes = [i \in Inos |->
                   IF i = RootIno
                   THEN [kind |-> "dir", data |-> <<>>, target |-> "",
                         nlink |-> 2]
                   ELSE IF i = 2
                   THEN [kind |-> "reg", data |-> <<1>>, target |-> "",
                         nlink |-> 1]
                   ELSE FreeInode]
    /\ fdtab  = [f \in Fds |-> ClosedFd]
    /\ dirtab = [d \in Dirs |-> ClosedDir]
    /\ errno  = [t \in Threads |-> 0]
    /\ sess   = [s \in Sids |-> FreeSess]
    /\ lastw  = NoWrite

Access(t, p) ==
    LET r == mirror_access(errno[t], p, 0) IN
    /\ errno' = [errno EXCEPT ![t] = r.errno]
    /\ UNCHANGED <<names, inodes, fdtab, dirtab, sess, lastw>>

Getattr(t, p) ==
    LET r == mirror_getattr(errno[t], p) IN
    /\ errno' = [errno EXCEPT ![t] = r.errno]
    /\ UNCHANGED <<names, inodes, fdtab, dirtab, sess, lastw>>

Fgetattr(t, s) ==
    /\ sess[s].st = "file"
    /\ LET r == mirror_fgetattr(errno[t], sess[s].path, Fi(s)) IN
       /\ errno' = [errno EXCEPT ![t] = r.errno]
    /\ UNCHANGED <<names, inodes, fdtab, dirtab, sess, lastw>>

\* The caller's buffer holds bufsize bytes of whatever was there before.
Readlink(t, p, bufsize, junk) ==
    LET r == mirror_readlink(errno[t], p, [k \in 1..bufsize |-> junk], bufsize) IN
    /\ errno' = [errno EXCEPT ![t] = r.errno]
    /\ UNCHANGED <<names, inodes, fdtab, dirtab, sess, lastw>>

Unlink(t, p) ==
    LET r == mirror_unlink(errno[t], p) IN
    /\ errno' = [errno EXCEPT ![t] = r.errno]
    /\ names' = r.names
    /\ inodes' = r.inodes
    /\ sess' = Touch(r.names, FALSE)
    /\ lastw' = KeepW(r.inodes)
    /\ UNCHANGED <<fdtab, dirtab>>

Symlink(t, target, linkpath) ==
    /\ FreeInos(inodes) # {}
    /\ LET r == mirror_symlink(errno[t], target, linkpath) IN
       /\ errno' = [errno EXCEPT ![t] = r.errno]
       /\ names' = r.names
       /\ inodes' = r.inodes
       /\ sess' = Touch(r.names, FALSE)
       /\ lastw' = KeepW(r.inodes)
    /\ UNCHANGED <<fdtab, dirtab>>

Rename(t, oldpath, newpath) ==
    LET r == mirror_rename(errno[t], oldpath, newpath) IN
    /\ errno' = [errno EXCEPT ![t] = r.errno]
    /\ names' = r.names
    /\ inodes' = r.inodes
    /\ sess' = Touch(r.names, FALSE)
    /\ lastw' = KeepW(r.inodes)
    /\ UNCHANGED <<fdtab, dirtab>>

\* libfuse keeps the session when the handler returns 0 and drops the
\* fuse_file_info, without calling release, when it returns an error.
Open(t, p, flags) ==
    /\ FreeSids # {}
    /\ FreeFds(fdtab) # {}
    /\ LET s == NewSid
           r == mirror_open(errno[t], p, [fh |-> 0, flags |-> flags])
       IN
       /\ errno' = [errno EXCEPT ![t] = r.errno]
       /\ fdtab' = r.fdtab
       /\ sess' = IF r.res = 0
                  THEN [sess EXCEPT ![s] =
                          [FreeSess EXCEPT !.st = "file", !.fh = r.fh,
                             !.flags = flags, !.path = p,
                             !.ino = IF r.fh \in Fds THEN r.fdtab[r.fh].ino
                                     ELSE 0]]
                  ELSE sess
    /\ UNCHANGED <<names, inodes, dirtab, lastw>>

Create(t, p, flags) ==
    /\ FreeSids # {}
    /\ FreeFds(fdtab) # {}
    /\ FreeInos(inodes) # {}
    /\ LET s == NewSid
           r == mirror_create(errno[t], p, 0, [fh |-> 0, flags |-> flags])
       IN
       /\ errno' = [errno EXCEPT ![t] = r.errno]
       /\ fdtab' = r.fdtab
       /\ names' = r.names
       /\ inodes' = r.inodes
       /\ lastw' = KeepW(r.inodes)
       /\ sess' = IF r.res = 0
                  THEN [Touch(r.names, FALSE) EXCEPT ![s] =
                          [FreeSess EXCEPT !.st = "file", !.fh = r.fh,
                             !.flags = flags, !.path = p,
                             !.ino = IF r.fh \in Fds THEN r.fdtab[r.fh].ino
                                     ELSE 0]]
                  ELSE Touch(r.names, FALSE)
    /\ UNCHANGED dirtab

Release(t, s) ==
    /\ sess[s].st = "file"
    /\ LET r == mirror_release(errno[t], sess[s].path, Fi(s)) IN
       /\ errno' = [errno EXCEPT ![t] = r.errno]
       /\ fdtab' = r.fdtab
       /\ inodes' = r.inodes
       /\ lastw' = KeepW(r.inodes)
    /\ sess' = [sess EXCEPT ![s] = FreeSess]
    /\ UNCHANGED <<names, dirtab>>

Read(t, s, size, offset) ==
    /\ sess[s].st = "file"
    /\ LET r == mirror_read(errno[t], sess[s].path, size, offset, Fi(s)) IN
       /\ errno' = [errno EXCEPT ![t] = r.errno]
       /\ fdtab' = r.fdtab
    /\ UNCHANGED <<names, inodes, dirtab, sess, lastw>>

Write(t, s, buf, offset) ==
    /\ sess[s].st = "file"
    /\ offset + Len(buf) <= MaxLen
    /\ LET r == mirror_write(errno[t], sess[s].path, buf, offset, Fi(s)) IN
       /\ errno' = [errno EXCEPT ![t] = r.errno]
       /\ inodes' = r.inodes
       /\ lastw' = IF r.res = Len(buf)
                   THEN [ino |-> sess[s].ino, off |-> offset, data |-> buf]
                   ELSE lastw
    /\ UNCHANGED <<names, fdtab, dirtab, sess>>

Fsync(t, s, datasync) ==
    /\ sess[s].st = "file"
    /\ LET r == mirror_fsync(errno[t], sess[s].path, datasync, Fi(s)) IN
       /\ errno' = [errno EXCEPT ![t] = r.errno]
    /\ UNCHANGED <<names, inodes, fdtab, dirtab, sess, lastw>>

Opendir(t, p) ==
    /\ FreeSids # {}
    /\ FreeDirs # {}
    /\ LET s == NewSid
           r == mirror_opendir(errno[t], p, [fh |-> 0, flags |-> 0])
       IN
       /\ errno' = [errno EXCEPT ![t] = r.errno]
       /\ dirtab' = r.dirtab
       /\ sess' = IF r.res = 0
                  THEN [sess EXCEPT ![s] =
                          [FreeSess EXCEPT !.st = "dir", !.fh = r.fh,
                                           !.path = p]]
                  ELSE sess
    /\ UNCHANGED <<names, inodes, fdtab, lastw>>

\* The kernel lists a directory by readdir requests: the first at offset 0,
\* each later one at the offset that came with the last entry its buffer
\* took, until a reply is empty.  cap is the number of entries this reply
\* buffer holds.
Readdir(t, s, cap, io) ==
    /\ sess[s].st = "dir"
    /\ ~sess[s].done
    /\ LET r == mirror_readdir(errno[t], sess[s].path, cap, sess[s].off, Fi(s), io)
           n == Len(r.buf)
       IN
       /\ errno' = [errno EXCEPT ![t] = r.errno]
       /\ dirtab' = r.dirtab
       /\ sess' = [Touch(names, r.err # 0) EXCEPT
                     ![s].got = @ \o [k \in 1..n |-> r.buf[k].name],
                     ![s].off = IF n = 0 THEN @ ELSE r.buf[n].off,
                     ![s].done = (n = 0)]
    /\ UNCHANGED <<names, inodes, fdtab, lastw>>

Releasedir(t, s) ==
    /\ sess[s].st = "dir"
    /\ LET r == mirror_releasedir(errno[t], sess[s].path, Fi(s)) IN
       /\ errno' = [errno EXCEPT ![t] = r.errno]
       /\ dirtab' = r.dirtab
    /\ sess' = [sess EXCEPT ![s] = FreeSess]
    /\ UNCHANGED <<names, inodes, fdtab, lastw>>

\* The FUSE loop starts worker threads on demand and lets idle ones exit: a
\* worker that replaces thread t starts with errno 0.
Respawn(t) ==
    /\ errno[t] # 0
    /\ errno' = [errno EXCEPT ![t] = 0]
    /\ UNCHANGED <<names, inodes, fdtab, dirtab, sess, lastw>>

NextPath ==
    \/ \E t \in Threads, p \in Paths : Access(t, p)
    \/ \E t \in Threads, p \in Paths : Getattr(t, p)
    \/ \E t \in Threads, p \in Paths, n \in 0..MaxBuf, j \in {NUL, Junk} :
          Readlink(t, p, n, j)
    \/ \E t \in Threads, p \in Paths : Unlink(t, p)
    \/ \E t \in Threads, p \in Names, q \in Paths : Symlink(t, p, q)
    \/ \E t \in Threads, p \in Names, q \in Names : Rename(t, p, q)

NextFile ==
    \/ \E t \in Threads, p \in Paths, f \in OpenFlags : Open(t, p, f)
    \/ \E t \in Threads, p \in Paths, f \in {O_WRONLY, O_RDWR} :
          Create(t, p, f)
    \/ \E t \in Threads, s \in Sids : Release(t, s)
    \/ \E t \in Threads, s \in Sids, n \in 0..MaxLen, o \in 0..MaxLen :
          Read(t, s, n, o)
    \/ \E t \in Threads, s \in Sids, b \in WriteBufs, o \in 0..MaxLen :
          Write(t, s, b, o)
    \/ \E t \in Threads, s \in Sids : Fgetattr(t, s)
    \/ \E t \in Threads, s \in Sids, d \in {0, 1} : Fsync(t, s, d)

NextDir ==
    \/ \E t \in Threads, p \in Paths : Opendir(t, p)
    \/ \E t \in Threads, s \in Sids, c \in 1..MaxCap, io \in BOOLEAN :
          Readdir(t, s, c, io)
    \/ \E t \in Threads, s \in Sids : Releasedir(t, s)

Next == NextPath \/ NextFile \/ NextDir \/ \E t \in Threads : Respawn(t)

\* Every request kind, on every worker thread.
Spec == Init /\ [][Next]_vars

\* The requests on paths alone.
SpecPath == Init /\ [][NextPath \/ \E t \in Threads : Respawn(t)]_vars

\* Opening and closing file sessions, on files that come and go.
SpecOpen ==
    Init /\ [][\/ \E t \in Threads, p \in Paths : Access(t, p)
               \/ \E t \in Threads, p \in Names : Unlink(t, p)
               \/ \E t \in Threads, p \in Paths, f \in OpenFlags :
                     Open(t, p, f)
               \/ \E t \in Threads, p \in Paths, f \in {O_WRONLY, O_RDWR} :
                     Create(t, p, f)
               \/ \E t \in Threads, s \in Sids : Release(t, s)
               \/ \E t \in Threads, s \in Sids, d \in {0, 1} :
                     Fsync(t, s, d)
               \/ \E t \in Threads : Respawn(t)]_vars

\* Reading and writing through file sessions while the names of the files
\* are removed, renamed and created again.
SpecIo ==
    Init /\ [][\/ \E t \in Threads, p \in Names : Unlink(t, p)
               \/ \E t \in Threads, p \in Names, q \in Names :
                     Rename(t, p, q)
               \/ \E t \in Threads, p \in Names, f \in OpenFlags :
                     Open(t, p, f)
               \/ \E t \in Threads, p \in Names, f \in {O_WRONLY, O_RDWR} :
                     Create(t, p, f)
               \/ \E t \in Threads, s \in Sids : Release(t, s)
               \/ \E t \in Threads, s \in Sids, n \in 0..MaxLen,
                     o \in 0..MaxLen : Read(t, s, n, o)
               \/ \E t \in Threads, s \in Sids, b \in WriteBufs,
                     o \in 0..MaxLen : Write(t, s, b, o)
               \/ \E t \in Threads, s \in Sids : Fgetattr(t, s)
               \/ \E t \in Threads : Respawn(t)]_vars

\* Directory sessions, with the requests that change the directory.
SpecDir ==
    Init /\ [][\/ NextDir
               \/ \E t \in Threads, p \in Names : Unlink(t, p)
               \/ \E t \in Threads, q \in Paths : Symlink(t, "a", q)
               \/ \E t \in Threads : Respawn(t)]_vars

\* Reads through handles of every access mode, on files that are opened,
\* created (and so truncated) and released.
SpecRead ==
    Init /\ [][\/ \E t \in Threads, p \in Names, f \in OpenFlags :
                     Open(t, p, f)
               \/ \E t \in Threads, p \in Names, f \in {O_WRONLY, O_RDWR} :
                     Create(t, p, f)
               \/ \E t \in Threads, s \in Sids : Release(t, s)
               \/ \E t \in Threads, s \in Sids, n \in 0..MaxLen,
                     o \in 0..MaxLen : Read(t, s, n, o)
               \/ \E t \in Threads : Respawn(t)]_vars

\* Handles held while the names of their files are removed, renamed and
\* given to other files.
SpecBind ==
    Init /\ [][\/ \E t \in Threads, p \in Names : Unlink(t, p)
               \/ \E t \in Threads, p \in Names, q \in Names :
                     Rename(t, p, q)
               \/ \E t \in Threads, p \in Names : Open(t, p, O_RDWR)
               \/ \E t \in Threads, p \in Names : Create(t, p, O_RDWR)
               \/ \E t \in Threads, s \in Sids : Release(t, s)
               \/ \E t \in Threads, s \in Sids : Fgetattr(t, s)
               \/ \E t \in Threads : Respawn(t)]_vars

(* ------------------------------- claims -------------------------------- *)
(* A handler is a function of its arguments, the thread's errno and the    *)
(* state, so a claim about a handler is stated over every request the      *)
(* framework can issue in a reachable state.                               *)

\* The values a handle slot can hold: a descriptor, 0, or (uint64_t)-1.
HandleVals == {-1, 0} \cup Fds
NewFi(flags) == [fh |-> 0, flags |-> flags]
FileSids == {s \in Sids : sess[s].st = "file"}
DirSids  == {s \in Sids : sess[s].st = "dir"}

\* C1: for every path and flag word, an open request returns 0 with the
\* descriptor of the underlying open in the handle slot when the underlying
\* open succeeds, and the negated error code of the underlying open when it
\* fails.
C1_OpenContract ==
    [][\A t \in Threads, p \in Paths, f \in OpenFlags :
          Open(t, p, f) =>
             LET u == sys_open(p, f)
                 r == mirror_open(errno[t], p, NewFi(f))
             IN IF u.ret # -1
                THEN r.res = 0 /\ r.fh = u.ret /\ fdtab'[r.fh].open
                ELSE r.res = -u.err]_vars

\* C7: every descriptor and directory stream the handlers acquired belongs
\* to a session that will release it (none is left open without a session),
\* no two sessions hold the same one, and the close a release makes closes
\* an open descriptor.
C7_HandleLifecycle ==
    /\ \A fd \in Fds : fdtab[fd].open =>
          \E s \in FileSids : sess[s].fh = fd
    /\ \A d \in Dirs : dirtab[d].open =>
          \E s \in DirSids : sess[s].fh = DirPtr(d)
    /\ \A s \in FileSids : sys_close(sess[s].fh).ret = 0
    /\ \A s \in DirSids : \E d \in Dirs : sess[s].fh = DirPtr(d) /\ dirtab[d].open
    /\ \A s1, s2 \in Sids :
          s1 # s2 /\ sess[s1].st # "free" /\ sess[s1].st = sess[s2].st
             => sess[s1].fh # sess[s2].fh

\* C10: the result of a request and the value it leaves in the handle slot
\* depend on its arguments, its session handle and the state of the file
\* system only: the thread that serves it, whatever it served before,
\* answers as a thread that has served nothing (errno 0) would.
C10_Stateless ==
    [][\A t \in Threads, p \in Paths :
          /\ Access(t, p) =>
                mirror_access(errno[t], p, 0).res = mirror_access(0, p, 0).res
          /\ \A f \in OpenFlags :
                Open(t, p, f) =>
                   LET a == mirror_open(errno[t], p, NewFi(f))
                       b == mirror_open(0, p, NewFi(f))
                   IN a.res = b.res /\ a.fh = b.fh
          /\ \A f \in {O_WRONLY, O_RDWR} :
                Create(t, p, f) =>
                   LET a == mirror_create(errno[t], p, 0, NewFi(f))
                       b == mirror_create(0, p, 0, NewFi(f))
                   IN a.res = b.res /\ a.fh = b.fh
          /\ \A s \in Sids :
                /\ Release(t, s) =>
                      mirror_release(errno[t], p, Fi(s)).res
                         = mirror_release(0, p, Fi(s)).res
                /\ \A d \in {0, 1} :
                      Fsync(t, s, d) =>
                         mirror_fsync(errno[t], p, d, Fi(s)).res
                            = mirror_fsync(0, p, d, Fi(s)).res]_vars

\* C2: read and release apart, a handler whose underlying call fails
\* returns a negative result, whatever request the framework issues.
C2_FailureSurfaced ==
    \A t \in Threads :
        LET e == errno[t]
            Neg(r) == r.err # 0 => r.res < 0
        IN
        /\ \A p \in Paths :
              /\ Neg(mirror_access(e, p, 0))
              /\ Neg(mirror_getattr(e, p))
              /\ Neg(mirror_unlink(e, p))
              /\ Neg(mirror_opendir(e, p, NewFi(0)))
              /\ \A n \in 0..MaxBuf :
                    Neg(mirror_readlink(e, p, [k \in 1..n |-> Junk], n))
              /\ \A q \in Names : Neg(mirror_symlink(e, q, p))
              /\ \A f \in OpenFlags :
                    /\ Neg(mirror_open(e, p, NewFi(f)))
                    /\ Neg(mirror_create(e, p, 0, NewFi(f)))
        /\ \A p \in Names, q \in Names : Neg(mirror_rename(e, p, q))
        /\ \A h \in HandleVals :
              /\ Neg(mirror_fgetattr(e, "", [fh |-> h, flags |-> 0]))
              /\ \A d \in {0, 1} :
                    Neg(mirror_fsync(e, "", d, [fh |-> h, flags |-> 0]))
              /\ \A b \in WriteBufs, o \in 0..MaxLen :
                    Neg(mirror_write(e, "", b, o, [fh |-> h, flags |-> 0]))
        /\ \A s \in DirSids :
              /\ Neg(mirror_releasedir(e, sess[s].path, Fi(s)))
              /\ \A c \in 1..MaxCap, io \in BOOLEAN :
                    Neg(mirror_readdir(e, sess[s].path, c, sess[s].off,
                                       Fi(s), io))

C6_GetattrTransparent ==
    \A t \in Threads, p \in Paths :
        LET r == mirror_getattr(errno[t], p)
            i == Lookup(names, p)
        IN IF i # 0 THEN r.res = 0 /\ r.st = AttrOf(inodes, i)
           ELSE r.res = -ENOENT

\* C8: readlink on a symbolic link whose target fits the buffer with its
\* terminator returns 0 and leaves the target, terminated, in the buffer;
\* on a path that is no symbolic link, and on a buffer too small for the
\* whole target, it returns a negative result.
C8_ReadlinkContract ==
    \A t \in Threads, p \in Paths, n \in 0..MaxBuf, j \in {NUL, Junk} :
        LET r   == mirror_readlink(errno[t], p, [k \in 1..n |-> j], n)
            i   == Lookup(names, p)
            lnk == i # 0 /\ inodes[i].kind = "lnk"
            txt == IF lnk THEN Text(inodes[i].target) ELSE <<>>
        IN IF lnk /\ Len(txt) + 1 <= n
           THEN /\ r.res = 0
                /\ SubSeq(r.buf, 1, Len(txt)) = txt
                /\ r.buf[Len(txt) + 1] = NUL
           ELSE r.res < 0

\* C3: after a write of B at offset O returned |B|, a read of |B| bytes at
\* O through a handle to the same file whose caller asked for read access
\* (the handle that wrote, one returned by create, or one opened later)
\* returns |B| and B.
C3_RoundTrip ==
    \A s \in FileSids, t \in Threads :
        (/\ lastw.ino # 0
         /\ sess[s].ino = lastw.ino
         /\ sess[s].flags % (O_ACCMODE + 1) # O_WRONLY)
        => LET r == mirror_read(errno[t], sess[s].path, Len(lastw.data),
                                lastw.off, Fi(s))
           IN r.res = Len(lastw.data) /\ r.buf = lastw.data

\* C5: a handle stays bound to the file it was opened on.  Once the path is
\* removed or renamed, getattr on the path fails with ENOENT; fgetattr on
\* the handle returns the attributes of the original file, not those of a
\* file created at the path since; read and write through the handle act on
\* the original file.
C5_HandleBound ==
    \A s \in FileSids, t \in Threads :
        LET fi == Fi(s)
            p  == sess[s].path
            i  == sess[s].ino
            e  == errno[t]
            g  == mirror_fgetattr(e, p, fi)
        IN
        /\ inodes[i].kind = "reg"
        /\ g.res = 0 /\ g.st = AttrOf(inodes, i) /\ g.st.ino = i
        /\ Lookup(names, p) = 0 => mirror_getattr(e, p).res = -ENOENT
        /\ Lookup(names, p) \notin {0, i} => mirror_getattr(e, p).st # g.st
        /\ fdtab[fi.fh].acc # O_WRONLY =>
              \A n \in 0..MaxLen, o \in 0..MaxLen :
                 LET r == mirror_read(e, p, n, o, fi) IN
                 r.res = Len(r.buf) /\ r.buf = FileBytes(inodes[i].data, n, o)
        /\ fdtab[fi.fh].acc # O_RDONLY =>
              \A b \in WriteBufs, o \in 0..MaxLen :
                 o + Len(b) <= MaxLen =>
                    LET w == mirror_write(e, p, b, o, fi) IN
                    /\ w.res = Len(b)
                    /\ w.inodes = [inodes EXCEPT ![i].data = Store(@, b, o)]

\* A handle whose file has lost its name, with another file now at the path.
C5_Witness ==
    \E s \in FileSids :
        /\ inodes[sess[s].ino].nlink = 0
        /\ Lookup(names, sess[s].path) \notin {0, sess[s].ino}
        /\ Len(inodes[sess[s].ino].data) > 0

\* C9: read never returns a negative value: it returns the number of bytes
\* the positioned read transferred, at most the size asked for, 0 at or past
\* the end of the file, and 0 when the positioned read fails; the file
\* offset of the descriptor stays where it was.
C9_ReadResult ==
    \A t \in Threads, h \in HandleVals, n \in 0..MaxLen, o \in 0..MaxLen + 1 :
        LET r  == mirror_read(errno[t], "", n, o, [fh |-> h, flags |-> 0])
            ok == h \in Fds /\ fdtab[h].open /\ fdtab[h].acc # O_WRONLY
                  /\ inodes[fdtab[h].ino].kind = "reg"
        IN
        /\ r.res >= 0 /\ r.res <= n
        /\ r.fdtab = fdtab
        /\ IF ok
           THEN LET data == inodes[fdtab[h].ino].data IN
                /\ r.res = Min(n, Max(Len(data) - o, 0))
                /\ r.buf = FileBytes(data, n, o)
                /\ o >= Len(data) => r.res = 0
           ELSE r.err # 0 /\ r.res = 0

\* A read was served on a write-only handle of a file that has bytes: the
\* positioned read failed with EBADF and the handler returns 0.
C9_Witness ==
    \E s \in FileSids, t \in Threads :
        /\ fdtab[sess[s].fh].acc = O_WRONLY
        /\ Len(inodes[sess[s].ino].data) > 0
        /\ errno[t] = EBADF
        /\ mirror_read(errno[t], sess[s].path, 1, 0, Fi(s)).res = 0

====
